---------------------------- MODULE Spec2Model ----------------------------
(***************************************************************************)
(* Verification model of the tick ingestion pipeline:                      *)
(*   WebSocketIngestor (services/websocket_ingester.py)                    *)
(*     -> publish_tick / Redis stream (core/redis_client.py)               *)
(*     -> BatchProcessor (services/batch_processor.py)                     *)
(*     -> bulk_insert_ticks (core/database.py).                            *)
(*                                                                         *)
(* All tasks run on one asyncio event loop: the code between two awaits is *)
(* one atomic step, and every await is a point where another task may run. *)
(* Each action below is one such step.                                     *)
(*                                                                         *)
(* Six specifications share the module:                                    *)
(*   Spec      the pipeline, time passing freely between steps             *)
(*   SpecFair  Spec with every awaited operation ending                    *)
(*   SpecTimed the pipeline, with I/O taking no time and sleeps exact      *)
(*   SpecLog   the Redis stream and its consumer groups alone              *)
(*   SpecConn  the per-symbol connector tasks of the ingestor              *)
(*   SpecStop  the connector tasks with stop(), every awaited operation    *)
(*             ending                                                      *)
(***************************************************************************)
EXTENDS Integers, Sequences, FiniteSets

(***************************************************************************)
(* Bounds of the model.  The configuration values of the program are       *)
(* scaled down so that their thresholds are reached with a few ticks.      *)
(***************************************************************************)
\* number of frames the feed delivers in one behaviour
MaxFrames == 3
\* settings.BATCH_SIZE (default 500), scaled
BATCH_SIZE == 2
\* settings.BATCH_TIMEOUT_SECONDS (default 1.0), in clock units
BATCH_TIMEOUT == 2
\* maxlen of XADD (100000), scaled
MAXLEN == 2
\* entries a stream may keep beyond maxlen before a whole node is trimmed
NodeSlack == 1
\* count of XREADGROUP (100), scaled
ReadCount == 2
\* number of failures of Redis or of the database injected in one behaviour
MaxFaults == 1

Frames == 1..MaxFrames

INGESTOR_CONSUMER_GROUP == "ingestor_group"
ANALYTICS_CONSUMER_GROUP == "analytics_group"
\* the two groups that create_consumer_groups creates on ticks_stream
StreamGroups == {INGESTOR_CONSUMER_GROUP, ANALYTICS_CONSUMER_GROUP}

\* the three callers of flush_buffer
Callers == {"consume", "flush", "stop"}
\* the coroutines that BatchProcessor.start gathers
Loops == {"consume", "flush", "report"}

VARIABLES
    \* ---- WebSocketIngestor and its connector tasks
    ingRunning,     \* WebSocketIngestor.running
    active_symbols, \* WebSocketIngestor.active_symbols
    connections,    \* WebSocketIngestor.connections: symbol -> connection
    wsState,        \* connection -> "unused", "open", "closed_remote", "closed_local"
    tasks,          \* task -> [sym, pc, ws]: the ingest_symbol coroutines
    attempts,       \* number of websockets.connect calls so far
    removing,       \* the symbol whose remove_symbol call awaits ws.close()
    removed,        \* symbols whose remove_symbol has completed (history)
    lastEvent,      \* the last step of a connector: [ev, sym]
    connOrder,      \* the keys of connections in insertion order, "none" where
                    \* a key was deleted
    ingStop,        \* WebSocketIngestor.stop(): [pc, pos, len], its position,
                    \* and the place and the size its dict iterator remembers
    \* ---- WebSocketIngestor.process_message
    framesSeen,     \* number of frames received from the feed so far
    normalized,     \* frames that were trade events and were normalized
    ingStats,       \* WebSocketIngestor.stats
    \* ---- Redis stream ticks_stream
    stream,         \* sequence of entries [id, tick], oldest first
    lastId,         \* last id the stream generated
    groups,         \* group -> [exists, cursor, pending]
    delivered,      \* group -> ids XREADGROUP has delivered to it (history)
    createdLate,    \* groups created after the stream's first entry (history)
    evicted,        \* ids trimmed from the stream (history)
    lastOp,         \* the last stream operation: [op, group, ids]
    \* ---- BatchProcessor
    running,        \* BatchProcessor.running
    pc,             \* position of consume_loop, flush_loop, report_stats, stop()
    inflight,       \* result of the consume_ticks call in flight
    buffer,         \* BatchProcessor.buffer
    taken,          \* caller -> ticks_to_insert of its flush_buffer call
    bpStats,        \* BatchProcessor.stats
    sinceFlush,     \* now - last_flush, saturating at BATCH_TIMEOUT
    sleepLeft,      \* remaining time of flush_loop's sleep
    \* ---- Storage sink and history
    sink,           \* ticks committed by bulk_insert_ticks
    handed,         \* ticks passed to bulk_insert_ticks in some batch
    takeCount,      \* tick -> number of times flush_buffer took it
    buffered,       \* ticks consume_loop appended to the buffer
    ackIssued,      \* ticks for whose ids acknowledge_messages was called
    acked,          \* ids acknowledged for the ingestor group
    ackedTicks,     \* the ticks of those entries
    faults,         \* number of injected failures of Redis or the database
    insertFailed,   \* some bulk insert has failed so far
    lastInsert,     \* caller and outcome of the last finished bulk insert
    age             \* tick -> time it has spent in the buffer

stopVars == <<connOrder, ingStop>>
connVars == <<ingRunning, active_symbols, connections, wsState, tasks,
              attempts, removing, removed, lastEvent, stopVars>>
ingVars == <<framesSeen, normalized, ingStats>>
accVars == <<running, pc, inflight, buffer, taken, takeCount, handed, sink,
             bpStats, insertFailed, lastInsert, sinceFlush, sleepLeft, age,
             buffered, ackIssued, acked, ackedTicks>>
logVars == <<stream, lastId, groups, delivered, createdLate, evicted, lastOp>>
loopVars == <<running, pc, inflight>>
bufVars == <<buffer, taken, takeCount, handed>>
sinkVars == <<sink, bpStats, insertFailed, lastInsert>>
timeVars == <<sinceFlush, sleepLeft, age>>
histVars == <<buffered, ackIssued, acked, ackedTicks>>
vars == <<connVars, ingVars, logVars, loopVars, bufVars, sinkVars, timeVars, histVars,
          faults>>

Min(a, b) == IF a < b THEN a ELSE b
Max(a, b) == IF a > b THEN a ELSE b
Range(s) == {s[i] : i \in 1..Len(s)}
\* the first n elements of s
Take(s, n) == SubSeq(s, 1, Min(n, Len(s)))
\* s without its first n elements
Drop(s, n) == SubSeq(s, Min(n, Len(s)) + 1, Len(s))
Ids(es) == {es[i].id : i \in 1..Len(es)}

(***************************************************************************)
(* Redis stream: XADD with MAXLEN, XGROUP CREATE, XREADGROUP ">", XACK.    *)
(***************************************************************************)

\* redis_client.xadd(..., maxlen=100000): redis-py sends MAXLEN ~ (its
\* approximate argument defaults to True), so the server trims whole nodes
\* only: it never trims below maxlen and may keep up to a node more.
\* The numbers of oldest entries the server may evict from a stream that
\* holds len entries after the append.
TrimChoices(len) ==
    {k \in 0..len : /\ len - k >= Min(len, MAXLEN)
                    /\ len - k <= MAXLEN + NodeSlack}

\* the stream after appending tick t under a new id and evicting the k oldest
XAddNoTrim(st, id, t, k) == Append(st, [id |-> id, tick |-> t])
XAdd(st, id, t, k) == Drop(Append(st, [id |-> id, tick |-> t]), k)

\* a group created at the end of the stream (id="$")
NewGroupAtEnd == [exists |-> TRUE, cursor |-> lastId, pending |-> {}]
\* XGROUP CREATE stream group id="0" mkstream=True
NewGroup == [exists |-> TRUE, cursor |-> 0, pending |-> {}]

\* the entries XREADGROUP ">" delivers to group g: those after its cursor,
\* oldest first, at most count of them
Undelivered(st, gs, g) == SelectSeq(st, LAMBDA e : e.id > gs[g].cursor)
\* a reader that asks for the stream from id 0 instead of ">"
ReadEntriesFromStart(st, gs, g, count) == Take(st, count)
ReadEntries(st, gs, g, count) == Take(Undelivered(st, gs, g), count)

\* the groups after XREADGROUP has delivered entries es to g
XReadGroup(gs, g, es) ==
    IF es = <<>> THEN gs
    ELSE [gs EXCEPT ![g].cursor = es[Len(es)].id,
                    ![g].pending = @ \cup Ids(es)]

\* XACK stream g ids
XAckAllGroups(gs, g, ids) ==
    [h \in DOMAIN gs |-> [gs[h] EXCEPT !.pending = @ \ ids]]
XAck(gs, g, ids) == [gs EXCEPT ![g].pending = @ \ ids]

(***************************************************************************)
(* Initial state: a fresh deployment after init_redis() has created the    *)
(* consumer groups and the services have been constructed.                 *)
(***************************************************************************)
InitLog ==
    /\ stream = <<>>
    /\ lastId = 0
    /\ groups = [g \in StreamGroups |-> NewGroup]
    /\ delivered = [g \in StreamGroups |-> {}]
    /\ createdLate = {}
    /\ evicted = {}
    /\ lastOp = [op |-> "none", group |-> "none", ids |-> {}]

InitPipe ==
    /\ framesSeen = 0
    /\ normalized = {}
    /\ ingStats = [ticks_received |-> 0, ticks_published |-> 0, errors |-> 0]
    /\ running = FALSE
    /\ pc = [c \in Callers \cup Loops |-> "idle"]
    /\ inflight = [ticks |-> <<>>, ids |-> {}]
    /\ buffer = <<>>
    /\ taken = [c \in Callers |-> <<>>]
    /\ bpStats = [batches_processed |-> 0, ticks_inserted |-> 0, errors |-> 0]
    /\ sinceFlush = 0
    /\ sleepLeft = 0
    /\ sink = {}
    /\ handed = {}
    /\ takeCount = [t \in Frames |-> 0]
    /\ buffered = {}
    /\ ackIssued = {}
    /\ acked = {}
    /\ ackedTicks = {}
    /\ faults = 0
    /\ insertFailed = FALSE
    /\ lastInsert = [caller |-> "none", outcome |-> "none"]
    /\ age = [t \in Frames |-> 0]

\* settings.symbols_list and the symbols add_symbol may be called with
Symbols == {"btcusdt", "ethusdt"}
DefaultSymbols == {"btcusdt"}
\* number of ingest_symbol tasks one behaviour creates
MaxTasks == 2
\* number of websockets.connect calls in one behaviour
MaxAttempts == 2
TaskIds == 1..MaxTasks
WsIds == 1..MaxAttempts
NoWs == 0
NoTask == [sym |-> "none", pc |-> "none", ws |-> NoWs]

\* WebSocketIngestor.__init__
InitConn ==
    /\ ingRunning = FALSE
    /\ active_symbols = DefaultSymbols
    /\ connections = [s \in Symbols |-> NoWs]
    /\ wsState = [w \in WsIds |-> "unused"]
    /\ tasks = [t \in TaskIds |-> NoTask]
    /\ attempts = 0
    /\ removing = "none"
    /\ removed = {}
    /\ lastEvent = [ev |-> "none", sym |-> "none"]
    /\ connOrder = <<>>
    /\ ingStop = [pc |-> "idle", pos |-> 0, len |-> 0]

Init == InitConn /\ InitLog /\ InitPipe

(***************************************************************************)
(* WebSocketIngestor.process_message with publish_tick.                    *)
(***************************************************************************)
\* Kinds of frame the feed may deliver.  "trade": a trade event with all its
\* fields; "other": a JSON object that is no trade event; "bad_json": text
\* json.loads rejects; "not_object": JSON that is no object, so data.get
\* raises; "missing_field": a trade event without T, s, p or q;
\* "bad_number": a trade event whose T, p or q is no number.
MalformedKinds == {"bad_json", "not_object", "missing_field", "bad_number"}
FrameKinds == {"trade", "other"} \cup MalformedKinds

\* process_message lines 72-76: json.loads, data.get or normalize_tick raises
RaisesOnBadJsonOnly(kind) == kind = "bad_json"
Raises(kind) == kind \in MalformedKinds

\* process_message line 75: data.get("e") == "trade"
IsTrade(kind) == kind \in {"trade", "missing_field", "bad_number"}
\* publish_tick: xadd succeeds, or raises and publish_tick returns None
PublishOutcomes == {"ok", "fail"}

\* process_message line 81: runs whatever publish_tick returned
CountPublished(st, pub) == [st EXCEPT !.ticks_published = @ + 1]

\* publish_tick: the XADD of tick f, trimming the k oldest entries
PublishOk(f, k) ==
    /\ k \in TrimChoices(Len(stream) + 1)
    /\ stream' = XAdd(stream, lastId + 1, f, k)
    /\ lastId' = lastId + 1
    /\ evicted' = evicted \cup Ids(Take(Append(stream,
                                    [id |-> lastId + 1, tick |-> f]), k))
    /\ lastOp' = [op |-> "add", group |-> "none", ids |-> {lastId + 1}]
    /\ UNCHANGED <<groups, delivered, createdLate>>

\* The next frame of the feed goes through process_message.
ProcessMessage(kind, pub) ==
    /\ framesSeen < MaxFrames
    /\ framesSeen' = framesSeen + 1
    /\ pub # "ok" => kind = "trade" /\ faults < MaxFaults
    /\ faults' = IF pub = "ok" THEN faults ELSE faults + 1
    /\ CASE Raises(kind) ->
              \* lines 83-85: counted, nothing published
              /\ ingStats' = [ingStats EXCEPT !.errors = @ + 1]
              /\ UNCHANGED <<normalized, logVars>>
         [] ~Raises(kind) /\ ~IsTrade(kind) ->
              /\ UNCHANGED <<normalized, ingStats, logVars>>
         [] ~Raises(kind) /\ IsTrade(kind) ->
              /\ normalized' = normalized \cup {framesSeen + 1}
              /\ ingStats' = CountPublished(
                     [ingStats EXCEPT !.ticks_received = @ + 1], pub)
              /\ IF pub = "ok"
                 THEN \E k \in 0..(Len(stream) + 1) : PublishOk(framesSeen + 1, k)
                 ELSE UNCHANGED logVars
    /\ UNCHANGED <<loopVars, bufVars, sinkVars, timeVars, histVars>>

\* A trade frame of the feed reaches process_message through a connector
\* that stays connected.
Feed(pub) == ProcessMessage("trade", pub) /\ UNCHANGED connVars

(***************************************************************************)
(* BatchProcessor.                                                         *)
(***************************************************************************)
\* flush_buffer lines 87-88: ticks_to_insert = buffer.copy(); buffer.clear()
TakeBufferNoClear(buf) == [batch |-> buf, rest |-> buf]
TakeBuffer(buf) == [batch |-> buf, rest |-> <<>>]

\* consume_loop line 62: len(self.buffer) >= settings.BATCH_SIZE
SizeTriggerStrict(n) == n > BATCH_SIZE
SizeTrigger(n) == n >= BATCH_SIZE

\* a timer check that asks for more than the timeout
TimeTriggerLate(buf, since) == buf # <<>> /\ since > BATCH_TIMEOUT
\* flush_loop line 77: self.buffer and time_since_flush >= BATCH_TIMEOUT_SECONDS
TimeTrigger(buf, since) == buf # <<>> /\ since >= BATCH_TIMEOUT

\* where a caller of flush_buffer continues when flush_buffer returns
AfterFlush(c) == IF c = "stop" THEN "done" ELSE "top"

\* flush_buffer up to its await of bulk_insert_ticks, called by c with a
\* non-empty buffer
FlushStart(c) ==
    LET tb == TakeBuffer(buffer) IN
    /\ buffer' = tb.rest
    /\ taken' = [taken EXCEPT ![c] = tb.batch]
    /\ takeCount' = [t \in Frames |->
                       takeCount[t] + (IF t \in Range(tb.batch) THEN 1 ELSE 0)]
    /\ handed' = handed \cup Range(tb.batch)
    /\ pc' = [pc EXCEPT ![c] = "flushing"]

\* BatchProcessor.start
Start ==
    /\ \A c \in Callers \cup Loops : pc[c] = "idle"
    /\ ~running
    /\ running' = TRUE
    /\ pc' = [pc EXCEPT !["consume"] = "top", !["flush"] = "top",
                         !["report"] = "sleeping"]
    /\ UNCHANGED <<connVars, ingVars, logVars, inflight, bufVars, sinkVars, timeVars,
                   histVars, faults>>

\* a consume loop that does not look at the running flag
ConsumeTopNoCheck ==
    /\ pc["consume"] = "top"
    /\ pc' = [pc EXCEPT !["consume"] = "reading"]
    /\ UNCHANGED <<connVars, ingVars, logVars, running, inflight, bufVars, sinkVars,
                   timeVars, histVars, faults>>
\* consume_loop line 42: while self.running, then the call of consume_ticks
ConsumeTop ==
    /\ pc["consume"] = "top"
    /\ pc' = [pc EXCEPT !["consume"] = IF running THEN "reading" ELSE "done"]
    /\ UNCHANGED <<connVars, ingVars, logVars, running, inflight, bufVars, sinkVars,
                   timeVars, histVars, faults>>

\* outcomes of consume_ticks: the reply is converted; xreadgroup raises before
\* the server ran it; or the server ran it and the reply was lost or could
\* not be converted.  After either failure consume_ticks returns ([], []).
ReadOutcomes == {"ok", "failed_before", "failed_after"}

\* consume_ticks lines 98-122: what the call returns
ConsumeResult(es, out) ==
    IF out = "ok"
    THEN [ticks |-> [i \in 1..Len(es) |-> es[i].tick], ids |-> Ids(es)]
    ELSE [ticks |-> <<>>, ids |-> {}]

\* the effect on the stream's groups of a consume_ticks call for group g to
\* which the server delivers entries es
ServeRead(g, es, out) ==
    /\ groups' = XReadGroup(groups, g, es)
    /\ delivered' = [delivered EXCEPT ![g] = @ \cup Ids(es)]
    /\ lastOp' = [op |-> IF out = "ok" THEN "read" ELSE "read_failed",
                  group |-> g, ids |-> ConsumeResult(es, out).ids]

\* The server runs the XREADGROUP of consume_ticks (or the block expires with
\* nothing to deliver) and the reply is on its way.
ConsumeServe(out) ==
    /\ pc["consume"] = "reading"
    /\ out # "ok" => faults < MaxFaults
    /\ faults' = IF out = "ok" THEN faults ELSE faults + 1
    /\ LET g == INGESTOR_CONSUMER_GROUP
           es == IF out = "failed_before" THEN <<>>
                 ELSE ReadEntries(stream, groups, g, ReadCount)
       IN /\ ServeRead(g, es, out)
          /\ inflight' = ConsumeResult(es, out)
    /\ pc' = [pc EXCEPT !["consume"] = "resuming"]
    /\ UNCHANGED <<connVars, ingVars, stream, lastId, createdLate, evicted, running,
                   bufVars, sinkVars, timeVars, histVars>>

\* consume_loop lines 53-56: the ticks for whose ids acknowledge_messages has
\* been called when the loop next yields after extending the buffer by ticks
AckNotYetCalled(ticks) == {}
AckCalled(ticks) == Range(ticks)

\* consume_loop lines 52-56: if ticks: self.buffer.extend(ticks), then the call
\* of acknowledge_messages
ConsumeResume ==
    /\ pc["consume"] = "resuming"
    /\ IF inflight.ticks # <<>>
       THEN /\ buffer' = buffer \o inflight.ticks
            /\ buffered' = buffered \cup Range(inflight.ticks)
            /\ ackIssued' = ackIssued \cup AckCalled(inflight.ticks)
            /\ age' = [t \in Frames |->
                         IF t \in Range(inflight.ticks) THEN 0 ELSE age[t]]
            /\ pc' = [pc EXCEPT !["consume"] = "acking"]
            /\ UNCHANGED inflight
       ELSE /\ pc' = [pc EXCEPT !["consume"] = "top"]
            /\ inflight' = [ticks |-> <<>>, ids |-> {}]
            /\ UNCHANGED <<buffer, buffered, ackIssued, age>>
    /\ UNCHANGED <<connVars, ingVars, logVars, running, taken, takeCount, handed,
                   sinkVars, sinceFlush, sleepLeft, acked, ackedTicks, faults>>

\* acknowledge_messages: xack succeeds, or raises and the error is logged
AckOutcomes == {"ok", "fail"}

\* acknowledge_messages(g, ids), lines 125-137
AcknowledgeMessages(g, ids, out) ==
    /\ groups' = IF out = "ok" THEN XAck(groups, g, ids) ELSE groups
    /\ lastOp' = [op |-> IF out = "ok" THEN "ack" ELSE "ack_failed",
                  group |-> g, ids |-> ids]

\* consume_loop lines 56-63: acknowledge_messages returns, then the size check
\* and, when it holds, flush_buffer up to its await
ConsumeAck(out) ==
    /\ pc["consume"] = "acking"
    /\ out # "ok" => faults < MaxFaults
    /\ faults' = IF out = "ok" THEN faults ELSE faults + 1
    /\ AcknowledgeMessages(INGESTOR_CONSUMER_GROUP, inflight.ids, out)
    /\ IF out = "ok"
       THEN /\ acked' = acked \cup inflight.ids
            /\ ackedTicks' = ackedTicks \cup Range(inflight.ticks)
       ELSE UNCHANGED <<acked, ackedTicks>>
    /\ inflight' = [ticks |-> <<>>, ids |-> {}]
    /\ IF SizeTrigger(Len(buffer))
       THEN FlushStart("consume")
       ELSE /\ pc' = [pc EXCEPT !["consume"] = "top"]
            /\ UNCHANGED bufVars
    /\ UNCHANGED <<connVars, ingVars, stream, lastId, delivered, createdLate, evicted,
                   running, sinkVars, timeVars, buffered, ackIssued>>

\* flush_loop lines 72-73: while self.running, then asyncio.sleep
FlushLoopTop ==
    /\ pc["flush"] = "top"
    /\ IF running
       THEN /\ pc' = [pc EXCEPT !["flush"] = "sleeping"]
            /\ sleepLeft' = BATCH_TIMEOUT
       ELSE /\ pc' = [pc EXCEPT !["flush"] = "done"]
            /\ UNCHANGED sleepLeft
    /\ UNCHANGED <<connVars, ingVars, logVars, running, inflight, bufVars, sinkVars,
                   sinceFlush, age, histVars, faults>>

\* flush_loop lines 76-78: the sleep is over; flush when the buffer has data
\* and the timeout has passed since last_flush
FlushLoopWake ==
    /\ pc["flush"] = "sleeping"
    /\ sleepLeft = 0
    /\ IF TimeTrigger(buffer, sinceFlush)
       THEN FlushStart("flush")
       ELSE /\ pc' = [pc EXCEPT !["flush"] = "top"]
            /\ UNCHANGED bufVars
    /\ UNCHANGED <<connVars, ingVars, logVars, running, inflight, sinkVars, timeVars,
                   histVars, faults>>

\* report_stats lines 108-115: asyncio.sleep(30) is over, the statistics are
\* logged, and the loop checks self.running: it sleeps again or returns
ReportStats ==
    /\ pc["report"] = "sleeping"
    /\ pc' = [pc EXCEPT !["report"] = IF running THEN "sleeping" ELSE "done"]
    /\ UNCHANGED <<connVars, ingVars, logVars, running, inflight, bufVars, sinkVars,
                   timeVars, histVars, faults>>

\* BatchProcessor.stop lines 119-121, up to the await of flush_buffer
Stop ==
    /\ pc["stop"] = "idle"
    /\ running
    /\ running' = FALSE
    /\ IF buffer # <<>>
       THEN FlushStart("stop")
       ELSE /\ pc' = [pc EXCEPT !["stop"] = "done"]
            /\ UNCHANGED bufVars
    /\ UNCHANGED <<connVars, ingVars, logVars, inflight, sinkVars, timeVars, histVars,
                   faults>>

\* outcomes of bulk_insert_ticks: the batch is committed; execute or commit
\* raises and bulk_insert_ticks catches it (database.py 143-145: log, rollback,
\* return); or the exception escapes (the rollback itself raises).
InsertOutcomes == {"ok", "caught", "raised"}

\* bulk_insert_ticks lines 128-145: the rows the table holds afterwards
BulkInsert(rows, batch, out) == IF out = "ok" THEN rows \cup Range(batch) ELSE rows

\* flush_buffer lines 93-96, reached whenever bulk_insert_ticks returns
FlushSucceeded(st, batch) ==
    [st EXCEPT !.batches_processed = @ + 1, !.ticks_inserted = @ + Len(batch)]

\* flush_buffer lines 100-104: except Exception
FlushRaised(buf, batch) == buf \o batch

\* bulk_insert_ticks of caller c ends and flush_buffer returns
FlushFinish(c, out) ==
    /\ pc[c] = "flushing"
    /\ out # "ok" => faults < MaxFaults
    /\ faults' = IF out = "ok" THEN faults ELSE faults + 1
    /\ sink' = BulkInsert(sink, taken[c], out)
    /\ IF out = "raised"
       THEN /\ bpStats' = [bpStats EXCEPT !.errors = @ + 1]
            /\ buffer' = FlushRaised(buffer, taken[c])
            /\ UNCHANGED sinceFlush
       ELSE /\ bpStats' = FlushSucceeded(bpStats, taken[c])
            /\ sinceFlush' = 0
            /\ UNCHANGED buffer
    /\ insertFailed' = (insertFailed \/ out # "ok")
    /\ lastInsert' = [caller |-> c, outcome |-> out]
    /\ taken' = [taken EXCEPT ![c] = <<>>]
    /\ pc' = [pc EXCEPT ![c] = AfterFlush(c)]
    /\ UNCHANGED <<connVars, ingVars, logVars, running, inflight, takeCount, handed,
                   sleepLeft, age, histVars>>

(***************************************************************************)
(* Time.                                                                   *)
(***************************************************************************)
\* largest age the model tells apart
AgeCap == 2 * BATCH_TIMEOUT + 1

\* One unit of time passes: now - last_flush grows and the sleep of
\* flush_loop runs down.
Clock ==
    /\ sinceFlush' = Min(sinceFlush + 1, BATCH_TIMEOUT)
    /\ sleepLeft' = Max(sleepLeft - 1, 0)
    /\ UNCHANGED <<connVars, ingVars, logVars, loopVars, bufVars, sinkVars, histVars,
                   faults>>

\* Time passes at any moment, also while a task could run: I/O takes time and
\* a sleep may end late.
Advance ==
    /\ sleepLeft > 0 \/ sinceFlush < BATCH_TIMEOUT
    /\ Clock
    /\ UNCHANGED age

\* Some step of the accumulator can run now without waiting for time or for
\* the feed: a loop is between two awaits whose I/O has completed, the sleep
\* of flush_loop is over, or XREADGROUP has entries to deliver.
Urgent ==
    \/ pc["consume"] \in {"top", "resuming", "acking", "flushing"}
    \/ pc["consume"] = "reading" /\
         ReadEntries(stream, groups, INGESTOR_CONSUMER_GROUP, ReadCount) # <<>>
    \/ pc["flush"] \in {"top", "flushing"}
    \/ pc["flush"] = "sleeping" /\ sleepLeft = 0
    \/ pc["stop"] = "flushing"

\* Time passes only when no step is ready: I/O is instantaneous and
\* asyncio.sleep wakes on time.  The buffered ticks age.
AdvanceTimed ==
    /\ ~Urgent
    /\ Clock
    /\ age' = [t \in Frames |->
                 IF t \in Range(buffer) THEN Min(age[t] + 1, AgeCap) ELSE age[t]]

Steps ==
    \/ \E pub \in PublishOutcomes : Feed(pub)
    \/ Start
    \/ ConsumeTop
    \/ \E out \in ReadOutcomes : ConsumeServe(out)
    \/ ConsumeResume
    \/ \E out \in AckOutcomes : ConsumeAck(out)
    \/ FlushLoopTop
    \/ FlushLoopWake
    \/ ReportStats
    \/ Stop
    \/ \E c \in Callers, out \in InsertOutcomes : FlushFinish(c, out)

Next == Steps \/ Advance
NextTimed == Steps \/ AdvanceTimed

Spec == Init /\ [][Next]_vars
SpecTimed == Init /\ [][NextTimed]_vars

\* Every awaited operation ends: consume_ticks returns within its block time,
\* xack and the bulk insert return or raise, a sleep is over when its time has
\* passed, time passes, and the event loop runs every coroutine that is ready.
Fairness ==
    /\ WF_vars(ConsumeTop)
    /\ WF_vars(\E out \in ReadOutcomes : ConsumeServe(out))
    /\ WF_vars(ConsumeResume)
    /\ WF_vars(\E out \in AckOutcomes : ConsumeAck(out))
    /\ WF_vars(FlushLoopTop)
    /\ WF_vars(FlushLoopWake)
    /\ WF_vars(ReportStats)
    /\ WF_vars(\E c \in Callers, out \in InsertOutcomes : FlushFinish(c, out))
    /\ WF_vars(Advance)

SpecFair == Init /\ [][Next]_vars /\ Fairness


(***************************************************************************)
(* Properties of the pipeline.                                             *)
(***************************************************************************)
\* the loops of the accumulator and stop() have all returned
AllExited == \A c \in Callers : pc[c] = "done"

\* tick t is in the stream, in a reply on its way, in the buffer or in a batch
\* being inserted
InStream(t) == \E i \in 1..Len(stream) : stream[i].tick = t
InFlight(t) ==
    \/ t \in Range(inflight.ticks)
    \/ t \in Range(buffer)
    \/ \E c \in Callers : t \in Range(taken[c])
\* normalized ticks that are nowhere any more and in no accepted batch
Gone == {t \in normalized : ~InStream(t) /\ ~InFlight(t) /\ t \notin sink}

\* C1: no silent loss.  Every normalized tick is in the stream, on its way
\* through the accumulator or in an accepted batch, or else its drop was
\* counted: the ticks that are gone never outnumber the errors counted by
\* the ingestor and the batch processor.
C1_NoSilentLoss ==
    Cardinality(Gone) <= ingStats.errors + bpStats.errors

\* C2: clean shutdown loses nothing.  Once consume_loop, flush_loop and
\* stop() have all returned, every tick whose entry was acknowledged has
\* been handed to bulk_insert_ticks in some batch (stated for the runs in
\* which neither Redis nor the database fails).
C2_CleanShutdown ==
    (AllExited /\ faults = 0) => ackedTicks \subseteq handed

\* C3: a failed flush re-buffers.  Whenever flush_buffer returns after a bulk
\* insert that did not commit, every tick of the taken batch is in the
\* buffer again.
C3_FailedFlushRebuffers ==
    [][\A c \in Callers :
         (pc[c] = "flushing" /\ pc'[c] # "flushing" /\ lastInsert'.outcome # "ok")
            => Range(taken[c]) \subseteq Range(buffer')]_vars

\* the number of times tick t occurs in the buffer
InBuffer(t) == Cardinality({i \in 1..Len(buffer) : buffer[i] = t})

\* C4: drain-and-clear is atomic.  As long as no bulk insert has failed,
\* every tick that was appended to the buffer is either still in the buffer
\* or was taken by exactly one flush: never by two, never dropped untaken.
C4_TakenExactlyOnce ==
    ~insertFailed => \A t \in buffered : takeCount[t] + InBuffer(t) = 1

\* C4 witness: the timer flush is suspended in its bulk insert while the
\* consume loop, having extended the buffer, is suspended in its own.
C4_Witness ==
    /\ pc["consume"] = "flushing" /\ taken["consume"] # <<>>
    /\ pc["flush"] = "flushing" /\ taken["flush"] # <<>>
    /\ ~insertFailed

\* C5: size trigger.  When acknowledge_messages returns in an iteration that
\* appended ticks and the buffer holds at least BATCH_SIZE ticks, the
\* iteration goes on to flush that buffer, not to the next read.
C5_SizeTrigger ==
    [][(pc["consume"] = "acking" /\ pc'["consume"] # "acking"
          /\ Len(buffer) >= BATCH_SIZE)
         => (pc'["consume"] = "flushing" /\ taken'["consume"] = buffer
               /\ buffer' = <<>>)]_vars

\* C5 witness: the consume loop is flushing a batch of at least BATCH_SIZE
\* ticks while the flush timer is still asleep.
C5_Witness ==
    /\ pc["consume"] = "flushing"
    /\ Len(taken["consume"]) >= BATCH_SIZE
    /\ pc["flush"] = "sleeping" /\ sleepLeft > 0

\* C6: time trigger.  While the accumulator runs and nothing fails, no tick
\* stays in the buffer for longer than BATCH_TIMEOUT (the epsilon of the
\* claim is below one clock unit).
C6_TimeTrigger ==
    (running /\ faults = 0) => \A t \in Range(buffer) : age[t] <= BATCH_TIMEOUT

\* C11: within the ingestor group, every acknowledge_messages call of the
\* consume loop names only ids that were not acknowledged before, and every
\* consume_ticks call returns only ids that were never delivered to the group
\* before, so none that was acknowledged.
C11_AckOnceNoRedelivery ==
    [][/\ (pc["consume"] = "acking" /\ pc'["consume"] # "acking")
            => inflight.ids \cap acked = {}
       /\ (pc["consume"] = "reading" /\ pc'["consume"] = "resuming")
            => inflight'.ids \cap (acked \cup delivered[INGESTOR_CONSUMER_GROUP]) = {}
      ]_vars

\* C11 witness: a read has returned entries after earlier entries were
\* acknowledged.
C11_Witness ==
    /\ pc["consume"] = "resuming" /\ inflight.ids # {}
    /\ acked # {}
\* C16: acknowledge before persist.  Every tick of every batch that was
\* handed to bulk_insert_ticks is a tick for whose entry acknowledge_messages
\* had been called by then.
C16_AckBeforePersist == handed \subseteq ackIssued

\* C16 witness: the timer loop has handed over a batch holding a tick whose
\* acknowledgment, issued by the consume loop, has not returned yet.
C16_Witness ==
    /\ pc["consume"] = "acking"
    /\ pc["flush"] = "flushing"
    /\ Range(inflight.ticks) \cap Range(taken["flush"]) # {}

\* start()'s gather has returned: its three coroutines have
GatherReturned == \A l \in Loops : pc[l] = "done"

\* C20: stop terminates the accumulator.  Once stop() has cleared the running
\* flag, consume_loop, flush_loop and report_stats all return; a loop that
\* finds the flag cleared at its loop check returns there, starting no new
\* read, sleep or flush; and a loop that has returned stays so.
C20_StopTerminates ==
    /\ (~running /\ pc["stop"] # "idle") ~> GatherReturned
    /\ [][\A l \in Loops :
            /\ (pc[l] = "top" /\ ~running /\ pc'[l] # "top") => pc'[l] = "done"
            /\ pc[l] = "done" => pc'[l] = "done"]_vars

\* C20 witness: all three coroutines have returned after a stop() that found
\* ticks in the buffer and flushed them.
C20_Witness ==
    /\ GatherReturned
    /\ pc["stop"] = "done"
    /\ lastInsert.caller = "stop"

\* C14: a publish failure is counted.  ticks_published is the number of
\* entries appended to the stream, and every normalized tick that was not
\* appended is counted in the ingestor's errors.
C14_PublishFailureCounted ==
    /\ ingStats.ticks_published = lastId
    /\ ingStats.errors >= Cardinality(normalized) - lastId
\* C17: the counters reflect only successful flushes.  When flush_buffer
\* returns after a bulk insert that did not commit, batches_processed,
\* ticks_inserted and last_flush are what they were.
C17_CountersOnlyOnSuccess ==
    [][\A c \in Callers :
         (/\ pc[c] = "flushing" /\ pc'[c] # "flushing"
          /\ lastInsert'.outcome # "ok")
            => /\ bpStats'.batches_processed = bpStats.batches_processed
               /\ bpStats'.ticks_inserted = bpStats.ticks_inserted
               /\ sinceFlush' = sinceFlush]_vars

\* C18: arrival order is preserved.  Every batch handed to bulk_insert_ticks
\* lists its ticks in the order of their stream entries (ticks are numbered
\* in the order in which they were appended to the stream).
C18_ArrivalOrder ==
    \A c \in Callers : \A i, j \in 1..Len(taken[c]) :
        i < j => taken[c][i] < taken[c][j]
\* the ticks a consume_ticks call has returned and consume_loop has yet to
\* append to the buffer
YetToBuffer ==
    IF pc["consume"] = "resuming" THEN Range(inflight.ticks) ELSE {}

\* C22: every entry delivered to the ingestor group is buffered and
\* acknowledged.  The entries delivered to the group are as many as the ticks
\* that were buffered or are about to be, and the only ids pending for the
\* group are those of the read in hand, which the loop is about to
\* acknowledge.
C22_DeliveredBufferedAcked ==
    /\ Cardinality(delivered[INGESTOR_CONSUMER_GROUP])
          = Cardinality(buffered \cup YetToBuffer)
    /\ groups[INGESTOR_CONSUMER_GROUP].pending \subseteq inflight.ids

\* tick t is in a batch that flush_buffer has passed to bulk_insert_ticks and
\* whose insert has not returned yet
BeingInserted(t) == \E c \in Callers : t \in Range(taken[c])

\* C23: eventual flush.  Under SpecFair every tick that is in the buffer is
\* later in a batch passed to bulk_insert_ticks, unless the running flag is
\* cleared or a bulk insert fails: the size check of consume_loop or the next
\* wake-up of flush_loop takes it, whatever arrives in the meantime.
C23_EventualFlush ==
    \A t \in Frames :
        (t \in Range(buffer)) ~> (BeingInserted(t) \/ ~running \/ insertFailed)
\* flush_loop has taken a batch smaller than BATCH_SIZE while the processor
\* runs and no insert has failed
C23_Witness ==
    /\ running /\ ~insertFailed
    /\ pc["flush"] = "flushing"
    /\ Len(taken["flush"]) \in 1..(BATCH_SIZE - 1)

(***************************************************************************)
(* The Redis stream and its consumer groups on their own: producers append *)
(* with publish_tick, init_redis creates the groups, and the consumers of  *)
(* each group call consume_ticks and acknowledge_messages.                 *)
(***************************************************************************)
\* number of appends in one behaviour: enough to overflow the stream
MaxAppends == MAXLEN + NodeSlack + 1

NoGroup == [exists |-> FALSE, cursor |-> 0, pending |-> {}]

\* before init_redis has run against an empty Redis
InitLogStore ==
    /\ stream = <<>>
    /\ lastId = 0
    /\ groups = [g \in StreamGroups |-> NoGroup]
    /\ delivered = [g \in StreamGroups |-> {}]
    /\ createdLate = {}
    /\ evicted = {}
    /\ lastOp = [op |-> "none", group |-> "none", ids |-> {}]

\* publish_tick by the ingestor
LogAppend ==
    /\ lastId < MaxAppends
    /\ \E k \in 0..(Len(stream) + 1) : PublishOk(lastId + 1, k)
    /\ UNCHANGED <<connVars, ingVars, accVars, faults>>

\* outcomes of xgroup_create: the server runs it (creating the group or
\* answering BUSYGROUP); the server answers another error (a ResponseError);
\* the call raises something else (the connection fails).
CreateOutcomes == {"ok", "error", "raised"}

\* the groups after XGROUP CREATE stream g 0 MKSTREAM with that outcome
XGroupCreateReset(gs, g, out) ==
    IF out = "ok" THEN [gs EXCEPT ![g] = NewGroup] ELSE gs
XGroupCreate(gs, g, out) ==
    IF out = "ok" /\ ~gs[g].exists THEN [gs EXCEPT ![g] = NewGroup] ELSE gs

\* how create_consumer_groups lines 43-52 leave the call for group g:
\* "create" (line 47), "create_busy" (BUSYGROUP, lines 49-50) and
\* "create_failed" (another ResponseError, lines 51-52) go on to the next
\* group and return normally; "create_raised" leaves create_consumer_groups
\* with the exception, which init_redis logs and raises again (lines 29-31)
CreateResult(gs, g, out) ==
    IF out = "raised" THEN "create_raised"
    ELSE IF out = "error" THEN "create_failed"
    ELSE IF gs[g].exists THEN "create_busy"
    ELSE "create"

\* the results with which init_redis goes on and reports success
ReturnedNormally == {"create", "create_busy", "create_failed"}

\* create_consumer_groups lines 43-52 for one (stream, group) of its list
CreateGroup(g, out) ==
    /\ groups' = XGroupCreate(groups, g, out)
    /\ createdLate' = IF out = "ok" /\ ~groups[g].exists /\ lastId > 0
                      THEN createdLate \cup {g} ELSE createdLate
    /\ lastOp' = [op |-> CreateResult(groups, g, out), group |-> g, ids |-> {}]
    /\ UNCHANGED <<stream, lastId, delivered, evicted>>
    /\ UNCHANGED <<connVars, ingVars, accVars, faults>>

\* consume_ticks(consumer_group=g, count=ReadCount) by a consumer of group g;
\* XREADGROUP on a group that does not exist fails with NOGROUP
LogRead(g, out) ==
    /\ ~groups[g].exists => out = "failed_before"
    /\ LET es == IF out = "failed_before" THEN <<>>
                 ELSE ReadEntries(stream, groups, g, ReadCount)
       IN ServeRead(g, es, out)
    /\ UNCHANGED <<stream, lastId, createdLate, evicted>>
    /\ UNCHANGED <<connVars, ingVars, accVars, faults>>

\* acknowledge_messages(g, ids) by a consumer of group g, for the ids of one
\* of its reads: at most ReadCount consecutive ids delivered to g, some of
\* them still pending
LogAck(g, ids, out) ==
    /\ ids \cap groups[g].pending # {}
    /\ ids \subseteq delivered[g]
    /\ \E a \in ids : ids = {i \in delivered[g] : a <= i /\ i < a + ReadCount}
                          \/ ids = {a}
    /\ AcknowledgeMessages(g, ids, out)
    /\ UNCHANGED <<stream, lastId, delivered, createdLate, evicted>>
    /\ UNCHANGED <<connVars, ingVars, accVars, faults>>

NextLog ==
    \/ LogAppend
    \/ \E g \in StreamGroups, out \in CreateOutcomes : CreateGroup(g, out)
    \/ \E g \in StreamGroups, out \in ReadOutcomes : LogRead(g, out)
    \/ \E g \in StreamGroups, ids \in SUBSET (1..MaxAppends), out \in AckOutcomes :
          LogAck(g, ids, out)

InitLogSpec == InitConn /\ InitLogStore /\ InitPipe

SpecLog == InitLogSpec /\ [][NextLog]_vars

\* C9: group isolation.  While nothing has been evicted, a group has been
\* delivered every entry up to its cursor, none skipped; and an acknowledgment
\* for one group leaves every other group's cursor and pending set as they were.
C9_GroupIsolation ==
    /\ [](\A g \in StreamGroups :
            (groups[g].exists /\ evicted = {}) => delivered[g] = 1..groups[g].cursor)
    /\ [][lastOp'.op = "ack" =>
            \A h \in StreamGroups \ {lastOp'.group} : groups'[h] = groups[h]]_vars

\* C9 witness: an id was acknowledged for the ingestor group while the
\* analytics group, which was delivered it too, still has it pending.
C9_Witness ==
    /\ lastOp.op = "ack" /\ lastOp.group = INGESTOR_CONSUMER_GROUP
    /\ \E id \in lastOp.ids :
          /\ id \notin groups[INGESTOR_CONSUMER_GROUP].pending
          /\ id \in groups[ANALYTICS_CONSUMER_GROUP].pending
    /\ groups[ANALYTICS_CONSUMER_GROUP].cursor = lastId
    /\ groups[INGESTOR_CONSUMER_GROUP].cursor = lastId

\* C10 as stated: after every append the stream holds at most MAXLEN entries.
C10_AtMostMaxlen == Len(stream) <= MAXLEN

\* C10 as amended: the stream never holds more than MAXLEN entries plus the
\* slack of the approximate trim; what it holds are the newest entries, the
\* oldest having been evicted first whether or not a group had read or
\* acknowledged them; and a successful read by a group returns the oldest
\* ReadCount surviving entries after the group's cursor, also when entries
\* after the cursor have been evicted.
C10_BoundedLog ==
    /\ [](/\ Len(stream) <= MAXLEN + NodeSlack
          /\ Ids(stream) = (lastId - Len(stream) + 1)..lastId
          /\ evicted = 1..(lastId - Len(stream)))
    /\ [][lastOp'.op = "read" =>
            LET g == lastOp'.group
                alive == {id \in Ids(stream) : id > groups[g].cursor}
            IN lastOp'.ids = {id \in alive :
                                Cardinality({j \in alive : j < id}) < ReadCount}]_vars

\* C10 witness: the stream is over MAXLEN, and a group has just read entries
\* although an entry it had never been delivered was evicted.
C10_Witness ==
    /\ lastOp.op = "read" /\ lastOp.ids # {}
    /\ \E id \in evicted : id \notin delivered[lastOp.group]
    /\ Len(stream) > MAXLEN

\* C12 as stated, for the first entry of the stream: a group created after
\* that entry was appended is never delivered it.
C12_OnlyFutureEntries == \A g \in createdLate : 1 \notin delivered[g]

\* C12 as amended: a group is created with its cursor before the first entry
\* and nothing pending, whatever the stream holds; and the first successful
\* read of a group returns the oldest entry the stream holds, also when that
\* entry was appended before the group was created.
C12_CreatedAtStart ==
    /\ [][\A g \in StreamGroups :
            (~groups[g].exists /\ groups'[g].exists)
               => (groups'[g].cursor = 0 /\ groups'[g].pending = {})]_vars
    /\ [][\A g \in StreamGroups :
            (lastOp'.op = "read" /\ lastOp'.group = g
               /\ groups[g].cursor = 0 /\ stream # <<>>)
               => stream[1].id \in lastOp'.ids]_vars

\* C12 witness: a group created after the first entry was appended has been
\* delivered that entry.
C12_Witness == \E g \in createdLate : 1 \in delivered[g]
\* C13: group creation is idempotent.  A create_consumer_groups call for a
\* group that exists leaves every group's cursor and pending set as they
\* were, and when the server answers it (with BUSYGROUP) the call goes on
\* normally.
C13_EnsureGroupIdempotent ==
    [][\A g \in StreamGroups :
         (/\ groups[g].exists
          /\ lastOp'.group = g
          /\ lastOp'.op \in ReturnedNormally \cup {"create_raised"})
            => /\ groups' = groups
               /\ lastOp'.op \in {"create_busy", "create_failed", "create_raised"}
               /\ lastOp'.op = "create_busy" => lastOp'.op \in ReturnedNormally]_vars

\* C13 witness: creation was just called again for a group that has
\* advanced its cursor and has entries pending.
C13_Witness ==
    /\ lastOp.op = "create_busy"
    /\ groups[lastOp.group].cursor > 0
    /\ groups[lastOp.group].pending # {}
\* C19: unexpected errors of group creation propagate.  Whenever
\* create_consumer_groups has gone on normally after its call for a group,
\* so that init_redis reports success, that group exists.
C19_CreationErrorsPropagate ==
    lastOp.op \in ReturnedNormally => groups[lastOp.group].exists

(***************************************************************************)
(* WebSocketIngestor: start, add_symbol, remove_symbol and the             *)
(* ingest_symbol task of each symbol.                                      *)
(***************************************************************************)
Connected == {"recv", "pinging"}

\* the with-block of ingest_symbol is left: websockets closes the connection
CloseOnExit(ws, w) ==
    [ws EXCEPT ![w] = IF @ = "open" THEN "closed_local" ELSE @]

\* an inner loop that does not look at the running flag
AfterFrameNoCheck(t, w) ==
    /\ tasks' = [tasks EXCEPT ![t].pc = "recv"]
    /\ UNCHANGED wsState
\* ingest_symbol line 53, the inner while self.running: receive again, or
\* leave the with-block and go back to the outer loop
AfterFrame(t, w) ==
    IF ingRunning
    THEN /\ tasks' = [tasks EXCEPT ![t].pc = "recv"]
         /\ UNCHANGED wsState
    ELSE /\ tasks' = [tasks EXCEPT ![t].pc = "loop", ![t].ws = NoWs]
         /\ wsState' = CloseOnExit(wsState, w)

\* self.connections[symbol] = ws: a new key goes to the end of the dict, the
\* value of a key that is present is replaced in place
SetKey(order, s) == IF s \in Range(order) THEN order ELSE Append(order, s)
\* del self.connections[symbol]: the place of the key stays, empty
DelKey(order, s) == [i \in 1..Len(order) |-> IF order[i] = s THEN "none" ELSE order[i]]
\* len(self.connections)
DictSize(order) == Cardinality({i \in 1..Len(order) : order[i] # "none"})
\* the place of the first key after place pos, 0 when there is none
NextKey(order, pos) ==
    LET rest == {i \in 1..Len(order) : i > pos /\ order[i] # "none"} IN
    IF rest = {} THEN 0 ELSE CHOOSE i \in rest : \A j \in rest : i <= j

\* WebSocketIngestor.start: one ingest_symbol task per active symbol
IngestorStart ==
    /\ ~ingRunning
    /\ \A t \in TaskIds : tasks[t].pc = "none"
    /\ Cardinality(active_symbols) <= MaxTasks
    /\ ingRunning' = TRUE
    /\ LET n == Cardinality(active_symbols)
           f == CHOOSE f \in [1..n -> active_symbols] :
                    \A i, j \in 1..n : f[i] = f[j] => i = j
       IN tasks' = [t \in TaskIds |->
                      IF t <= n THEN [sym |-> f[t], pc |-> "loop", ws |-> NoWs]
                      ELSE NoTask]
    /\ lastEvent' = [ev |-> "start", sym |-> "none"]
    /\ UNCHANGED <<active_symbols, connections, wsState, attempts, removing,
                   removed>>
    /\ UNCHANGED <<stopVars, ingVars, logVars, accVars, faults>>

\* WebSocketIngestor.add_symbol: for a symbol that is not active, the symbol
\* is added and a new ingest_symbol task is created; for an active symbol
\* nothing is done
AddSymbol(s) ==
    /\ ingRunning
    /\ IF s \notin active_symbols
       THEN /\ \E t \in TaskIds :
                  /\ tasks[t].pc = "none"
                  /\ \A u \in TaskIds : u < t => tasks[u].pc # "none"
                  /\ tasks' = [tasks EXCEPT
                                 ![t] = [sym |-> s, pc |-> "loop", ws |-> NoWs]]
            /\ active_symbols' = active_symbols \cup {s}
            /\ removed' = removed \ {s}
       ELSE UNCHANGED <<tasks, active_symbols, removed>>
    /\ lastEvent' = [ev |-> "add", sym |-> s]
    /\ UNCHANGED <<ingRunning, connections, wsState, attempts, removing>>
    /\ UNCHANGED <<stopVars, ingVars, logVars, accVars, faults>>

\* WebSocketIngestor.remove_symbol lines 119-124, up to its await of ws.close()
RemoveStart(s) ==
    /\ ingRunning
    /\ removing = "none"
    /\ s \in active_symbols
    /\ active_symbols' = active_symbols \ {s}
    /\ IF connections[s] # NoWs
       THEN /\ wsState' = CloseOnExit(wsState, connections[s])
            /\ removing' = s
            /\ UNCHANGED removed
       ELSE /\ removed' = removed \cup {s}
            /\ UNCHANGED <<wsState, removing>>
    /\ lastEvent' = [ev |-> "remove", sym |-> s]
    /\ UNCHANGED <<ingRunning, connections, tasks, attempts>>
    /\ UNCHANGED <<stopVars, ingVars, logVars, accVars, faults>>

\* remove_symbol line 124: ws.close() has returned, del self.connections[symbol]
RemoveFinish ==
    /\ removing # "none"
    /\ connections' = [connections EXCEPT ![removing] = NoWs]
    /\ connOrder' = DelKey(connOrder, removing)
    /\ removed' = removed \cup {removing}
    /\ removing' = "none"
    /\ lastEvent' = [ev |-> "remove", sym |-> removing]
    /\ UNCHANGED <<ingRunning, active_symbols, wsState, tasks, attempts, ingStop>>
    /\ UNCHANGED <<ingVars, logVars, accVars, faults>>

\* the exchange closes a connection, or the transport fails
ServerClose(w) ==
    /\ wsState[w] = "open"
    /\ wsState' = [wsState EXCEPT ![w] = "closed_remote"]
    /\ UNCHANGED <<ingRunning, active_symbols, connections, tasks, attempts,
                   removing, removed, lastEvent>>
    /\ UNCHANGED <<stopVars, ingVars, logVars, accVars, faults>>

\* ingest_symbol line 47: while self.running, then websockets.connect
TaskLoop(t) ==
    /\ tasks[t].pc = "loop"
    /\ tasks' = [tasks EXCEPT ![t].pc = IF ingRunning THEN "connecting" ELSE "exited"]
    /\ lastEvent' = [ev |-> "loop", sym |-> tasks[t].sym]
    /\ UNCHANGED <<ingRunning, active_symbols, connections, wsState, attempts,
                   removing, removed>>
    /\ UNCHANGED <<stopVars, ingVars, logVars, accVars, faults>>

\* ingest_symbol lines 49-53 and 64-67: websockets.connect returns a connection,
\* which is registered, or raises.  MaxAttempts bounds the connect calls of a
\* behaviour; a call in flight when the ingestor is stopped still ends.
TaskConnect(t, ok) ==
    /\ tasks[t].pc = "connecting"
    /\ attempts < MaxAttempts \/ (~ok /\ ~ingRunning)
    /\ attempts' = Min(attempts + 1, MaxAttempts)
    /\ IF ok
       THEN LET w == attempts + 1 IN
            /\ connections' = [connections EXCEPT ![tasks[t].sym] = w]
            /\ connOrder' = SetKey(connOrder, tasks[t].sym)
            /\ IF ingRunning
               THEN /\ tasks' = [tasks EXCEPT ![t].pc = "recv", ![t].ws = w]
                    /\ wsState' = [wsState EXCEPT ![w] = "open"]
               ELSE /\ tasks' = [tasks EXCEPT ![t].pc = "loop"]
                    /\ wsState' = [wsState EXCEPT ![w] = "closed_local"]
            /\ lastEvent' = [ev |-> "connect", sym |-> tasks[t].sym]
            /\ UNCHANGED ingStats
       ELSE /\ ingStats' = [ingStats EXCEPT !.errors = @ + 1]
            /\ tasks' = [tasks EXCEPT ![t].pc = "backoff"]
            /\ lastEvent' = [ev |-> "error", sym |-> tasks[t].sym]
            /\ UNCHANGED <<connections, connOrder, wsState>>
    /\ UNCHANGED <<ingRunning, active_symbols, removing, removed, ingStop>>
    /\ UNCHANGED <<framesSeen, normalized, logVars, accVars, faults>>

\* ingest_symbol lines 55-56: a frame arrives and goes through process_message
TaskFrame(t, kind, pub) ==
    /\ tasks[t].pc = "recv"
    /\ wsState[tasks[t].ws] = "open"
    /\ ProcessMessage(kind, pub)
    /\ AfterFrame(t, tasks[t].ws)
    /\ lastEvent' = [ev |-> IF kind = "trade" THEN "forward"
                             ELSE IF kind = "other" THEN "other" ELSE "malformed",
                     sym |-> tasks[t].sym]
    /\ UNCHANGED <<ingRunning, active_symbols, connections, attempts, removing,
                   removed, stopVars>>

\* ingest_symbol lines 57-59: no frame for 30 s, ws.ping() is awaited
TaskTimeout(t) ==
    /\ tasks[t].pc = "recv"
    /\ wsState[tasks[t].ws] = "open"
    /\ tasks' = [tasks EXCEPT ![t].pc = "pinging"]
    /\ lastEvent' = [ev |-> "timeout", sym |-> tasks[t].sym]
    /\ UNCHANGED <<ingRunning, active_symbols, connections, wsState, attempts,
                   removing, removed>>
    /\ UNCHANGED <<stopVars, ingVars, logVars, accVars, faults>>

\* where ingest_symbol goes when recv raises ConnectionClosed (lines 60-62:
\* break, which leaves the with-block and returns to the outer while)
AfterClosed == "loop"

\* ingest_symbol lines 60-62: recv raises ConnectionClosed
TaskClosed(t) ==
    /\ tasks[t].pc = "recv"
    /\ wsState[tasks[t].ws] # "open"
    /\ tasks' = [tasks EXCEPT ![t].pc = AfterClosed, ![t].ws = NoWs]
    /\ lastEvent' = [ev |-> "closed", sym |-> tasks[t].sym]
    /\ UNCHANGED <<ingRunning, active_symbols, connections, wsState, attempts,
                   removing, removed>>
    /\ UNCHANGED <<stopVars, ingVars, logVars, accVars, faults>>

\* ingest_symbol lines 57-59 and 64-67: ws.ping() returns, or raises because
\* the connection is closed; the exception leaves the with-block and is
\* counted, and the task sleeps 5 s
TaskPing(t) ==
    /\ tasks[t].pc = "pinging"
    /\ IF wsState[tasks[t].ws] = "open"
       THEN /\ AfterFrame(t, tasks[t].ws)
            /\ lastEvent' = [ev |-> "ping", sym |-> tasks[t].sym]
            /\ UNCHANGED ingStats
       ELSE /\ ingStats' = [ingStats EXCEPT !.errors = @ + 1]
            /\ tasks' = [tasks EXCEPT ![t].pc = "backoff", ![t].ws = NoWs]
            /\ lastEvent' = [ev |-> "error", sym |-> tasks[t].sym]
            /\ UNCHANGED wsState
    /\ UNCHANGED <<ingRunning, active_symbols, connections, attempts, removing,
                   removed, stopVars>>
    /\ UNCHANGED <<framesSeen, normalized, logVars, accVars, faults>>

\* ingest_symbol line 67: asyncio.sleep(5) is over
TaskBackoff(t) ==
    /\ tasks[t].pc = "backoff"
    /\ tasks' = [tasks EXCEPT ![t].pc = "loop"]
    /\ lastEvent' = [ev |-> "retry", sym |-> tasks[t].sym]
    /\ UNCHANGED <<ingRunning, active_symbols, connections, wsState, attempts,
                   removing, removed>>
    /\ UNCHANGED <<stopVars, ingVars, logVars, accVars, faults>>

\* stop line 130: the dict iterator raises RuntimeError when the dict has not
\* the size it had when the iteration began
SizeChanged(order, len) == DictSize(order) # len

\* stop lines 130-132: the next connection of the registry is taken and its
\* close() awaited, or the loop is over and stop returns
StopIterate(pos, len) ==
    LET i == NextKey(connOrder, pos) IN
    IF i = 0
    THEN /\ ingStop' = [pc |-> "done", pos |-> 0, len |-> 0]
         /\ UNCHANGED wsState
    ELSE /\ ingStop' = [pc |-> "closing", pos |-> i, len |-> len]
         /\ wsState' = CloseOnExit(wsState, connections[connOrder[i]])

\* WebSocketIngestor.stop lines 129-131, up to its first await
IngestorStop ==
    /\ ingRunning
    /\ ingStop.pc = "idle"
    /\ ingRunning' = FALSE
    /\ StopIterate(0, DictSize(connOrder))
    /\ lastEvent' = [ev |-> "stop", sym |-> "none"]
    /\ UNCHANGED <<active_symbols, connections, tasks, attempts, removing, removed,
                   connOrder>>
    /\ UNCHANGED <<ingVars, logVars, accVars, faults>>

\* stop lines 130-131: ws.close() has returned and the for loop goes on
StopNext ==
    /\ ingStop.pc = "closing"
    /\ IF SizeChanged(connOrder, ingStop.len)
       THEN /\ ingStop' = [pc |-> "raised", pos |-> 0, len |-> 0]
            /\ UNCHANGED wsState
       ELSE StopIterate(ingStop.pos, ingStop.len)
    /\ lastEvent' = [ev |-> "stop", sym |-> "none"]
    /\ UNCHANGED <<ingRunning, active_symbols, connections, tasks, attempts,
                   removing, removed, connOrder>>
    /\ UNCHANGED <<ingVars, logVars, accVars, faults>>

NextConn ==
    \/ IngestorStart
    \/ \E s \in Symbols : AddSymbol(s)
    \/ \E s \in Symbols : RemoveStart(s)
    \/ RemoveFinish
    \/ \E w \in WsIds : ServerClose(w)
    \/ \E t \in TaskIds : TaskLoop(t)
    \/ \E t \in TaskIds, ok \in BOOLEAN : TaskConnect(t, ok)
    \/ \E t \in TaskIds, kind \in FrameKinds, pub \in PublishOutcomes :
          TaskFrame(t, kind, pub)
    \/ \E t \in TaskIds : TaskTimeout(t)
    \/ \E t \in TaskIds : TaskClosed(t)
    \/ \E t \in TaskIds : TaskPing(t)
    \/ \E t \in TaskIds : TaskBackoff(t)

SpecConn == Init /\ [][NextConn]_vars

\* stop() has been called
Stopped == ingStop.pc # "idle"

\* A trade event reaches task t after stop() was called.  (While the ingestor
\* runs a frame leaves the connectors as they are, so the feed of SpecStop is
\* silent until then.)
LateFrame(t, pub) == Stopped /\ TaskFrame(t, "trade", pub)

\* the next step of the ingest_symbol task t, whatever it awaits
TaskStep(t) ==
    \/ TaskLoop(t)
    \/ \E ok \in BOOLEAN : TaskConnect(t, ok)
    \/ \E pub \in PublishOutcomes : LateFrame(t, pub)
    \/ TaskTimeout(t)
    \/ TaskClosed(t)
    \/ TaskPing(t)
    \/ TaskBackoff(t)

\* the connectors with stop()
NextStop ==
    \/ IngestorStart
    \/ IngestorStop
    \/ StopNext
    \/ \E s \in Symbols : AddSymbol(s)
    \/ \E s \in Symbols : RemoveStart(s)
    \/ RemoveFinish
    \/ \E w \in WsIds : ServerClose(w)
    \/ \E t \in TaskIds : TaskStep(t)

\* Every awaited operation of a connector ends: websockets.connect returns or
\* raises, recv returns a frame, raises or runs into the 30 s of wait_for,
\* ping and the 5 s sleep return; ws.close() of stop and of remove_symbol
\* returns; and the event loop runs every coroutine that is ready.
FairnessStop ==
    /\ \A t \in TaskIds : WF_vars(TaskStep(t))
    /\ WF_vars(StopNext)
    /\ WF_vars(RemoveFinish)

SpecStop == Init /\ [][NextStop]_vars /\ FairnessStop

\* symbol s has a connector with an open connection
Live(s) ==
    \E t \in TaskIds : /\ tasks[t].sym = s
                       /\ tasks[t].pc \in Connected
                       /\ wsState[tasks[t].ws] = "open"

\* C7: removing a symbol stops its connector.  Once remove_symbol(s) has
\* completed and s has not been added again, s is not in the connections
\* registry, no connector of s holds an open connection, and no tick of s
\* is forwarded.
C7_RemoveStopsConnector ==
    \A s \in removed :
        /\ connections[s] = NoWs
        /\ ~Live(s)
        /\ lastEvent # [ev |-> "forward", sym |-> s]

\* C8: reconnect with backoff.  While the ingestor runs, a connector whose
\* connection was closed by the exchange or failed leaves Connected only for
\* the backoff sleep, never straight for the next connection attempt.
C8_ReconnectWithBackoff ==
    [][\A t \in TaskIds :
         (/\ ingRunning
          /\ tasks[t].pc \in Connected
          /\ tasks'[t].pc \notin Connected
          /\ wsState[tasks[t].ws] = "closed_remote")
            => tasks'[t].pc = "backoff"]_vars

\* C15: frame filtering.  Processing a frame leaves the connector as it was:
\* the registry, the connections and every task, which stays in its receive
\* loop.  A frame that is no trade event publishes nothing and changes no
\* counter; a malformed frame publishes nothing and adds exactly one error.
C15_FrameFiltering ==
    [][framesSeen' # framesSeen =>
         /\ connections' = connections /\ wsState' = wsState
         /\ active_symbols' = active_symbols
         /\ ingRunning => tasks' = tasks
         /\ lastEvent'.ev = "other" => (stream' = stream /\ ingStats' = ingStats)
         /\ lastEvent'.ev = "malformed" =>
               /\ stream' = stream
               /\ ingStats' = [ingStats EXCEPT !.errors = @ + 1]]_vars

\* C15 witness: a malformed frame was just dropped by a connector that had
\* published a tick before.
C15_Witness ==
    /\ lastEvent.ev = "malformed"
    /\ ingStats.errors = 1
    /\ ingStats.ticks_published = 1 /\ Len(stream) = 1

\* C21: at most one connector per symbol.  No two ingest_symbol tasks of the
\* same symbol hold an open connection at the same time.
C21_OneConnectorPerSymbol ==
    \A t, u \in TaskIds :
        (/\ t # u
         /\ tasks[t].sym = tasks[u].sym
         /\ tasks[t].pc \in Connected /\ wsState[tasks[t].ws] = "open")
           => ~(tasks[u].pc \in Connected /\ wsState[tasks[u].ws] = "open")

\* every ingest_symbol task has returned
AllTasksExited == \A t \in TaskIds : tasks[t].pc \in {"none", "exited"}

\* C24: stopping the ingestor terminates every connector.  Once stop() has
\* been called every ingest_symbol task returns, wherever it was; when all
\* have returned no connection is open; and from then on nothing is
\* published and no counter moves.
C24_StopTerminatesConnectors ==
    /\ Stopped ~> AllTasksExited
    /\ [](Stopped /\ AllTasksExited => \A w \in WsIds : wsState[w] # "open")
    /\ [][Stopped /\ AllTasksExited =>
            stream' = stream /\ ingStats' = ingStats]_vars
\* stop() was called while two connectors ran, a tick was published, and
\* both tasks have returned
C24_Witness ==
    /\ Stopped /\ AllTasksExited
    /\ \A t \in TaskIds : tasks[t].pc = "exited"
    /\ stream # <<>>

=============================================================================
